---- MODULE Spec2Model ----
(***************************************************************************)
(* Model of zfs_fuse_snapshot.py: a FUSE filesystem that exposes every ZFS *)
(* snapshot as a file whose content is the output of `zfs send`.           *)
(*                                                                         *)
(* Python strings are sequences of one-character strings, so that          *)
(* startswith, split, rstrip, lstrip and the ordering of strings are       *)
(* computed the way Python computes them.                                  *)
(***************************************************************************)
EXTENDS Integers, Sequences, FiniteSets, TLC

VARIABLES
    zpool,          \* FuseSnapshot.zpool, the pool name given on the command line
    snapshots,      \* rows of `zfs list -t snapshot`: <<[name, creation]>>
    send_out,       \* bytes `zfs send` writes for each snapshot path of the pool
    datasets,       \* entries of the dataset catalog (simplezfs): <<[full_path, parent]>>
    open_buffers,   \* FuseSnapshot._open_buffers: handle -> SendBuffer
    max_buffer_id,  \* FuseSnapshot._max_buffer_id
    hist,           \* history: handle -> the path opened, the read calls made on
                    \* it (with the pointer and the count of bytes returned
                    \* before each) and the bytes it returned
    released,       \* history: handles for which release() has completed
    procs,          \* history: every process Popen started, by its pid, and
                    \* whether a terminate signal was sent to it
    returned,       \* history: handles returned by open(), in order
    ret             \* outcome of the last call

vars == <<zpool, snapshots, send_out, datasets, open_buffers, max_buffer_id, hist,
          released, procs, returned, ret>>

-----------------------------------------------------------------------------
(* Bounds *)

MaxSnaps   == 3     \* rows in a snapshot listing
MaxOpens   == 2     \* open() calls in one behaviour
MaxReads   == 2     \* read() calls recorded on one handle
MaxLen     == 2     \* largest length of a read
MaxOff     == 2     \* largest offset of a read
MaxStream  == 3     \* bytes the serializer writes to a pipe
MaxSize    == 1     \* largest size estimate printed by the dry run
MaxKids    == 2     \* entries of the dataset catalog

-----------------------------------------------------------------------------
(* Python strings *)

\* str.startswith
StartsWith(s, p) == Len(p) <= Len(s) /\ SubSeq(s, 1, Len(p)) = p

\* index of the first occurrence of character c in s, 0 when absent
RECURSIVE Find(_, _, _)
Find(s, c, i) ==
    IF i > Len(s) THEN 0
    ELSE IF s[i] = c THEN i
    ELSE Find(s, c, i + 1)

\* s.split(c)[0]
SplitFirst(s, c) ==
    LET i == Find(s, c, 1)
    IN  IF i = 0 THEN s ELSE SubSeq(s, 1, i - 1)

\* s.rstrip(c) for a single character c
RECURSIVE RStrip(_, _)
RStrip(s, c) ==
    IF s # <<>> /\ s[Len(s)] = c THEN RStrip(SubSeq(s, 1, Len(s) - 1), c) ELSE s

Chars(s) == {s[i] : i \in 1..Len(s)}

\* s.lstrip(chars): drops leading characters that occur in chars
RECURSIVE LStrip(_, _)
LStrip(s, chars) ==
    IF s # <<>> /\ Head(s) \in Chars(chars) THEN LStrip(Tail(s), chars) ELSE s

Digits == <<"0", "1", "2", "3", "4", "5", "6", "7", "8", "9">>

\* position of a character in code-point order (digits only are compared)
Ord(c) == CHOOSE i \in 1..10 : Digits[i] = c

\* Python's < on str: lexicographic by code point, a proper prefix is smaller
RECURSIVE StrLess(_, _)
StrLess(s, t) ==
    IF t = <<>> THEN FALSE
    ELSE IF s = <<>> THEN TRUE
    ELSE IF Ord(Head(s)) < Ord(Head(t)) THEN TRUE
    ELSE IF Ord(Head(s)) > Ord(Head(t)) THEN FALSE
    ELSE StrLess(Tail(s), Tail(t))

\* int(s) / float(s) of a string of digits
RECURSIVE IntVal(_)
IntVal(s) ==
    IF s = <<>> THEN 0
    ELSE 10 * IntVal(SubSeq(s, 1, Len(s) - 1)) + (Ord(s[Len(s)]) - 1)

-----------------------------------------------------------------------------
(* Python values *)

None            == [t |-> "None", s |-> <<>>]
Str(s)          == [t |-> "str", s |-> s]
RuntimeError(s) == [t |-> "RuntimeError", s |-> s]

\* truth value of an object in `if x:` / `not x`
Truthy(v) ==
    CASE v.t = "None" -> FALSE
      [] v.t = "str"  -> v.s # <<>>
      [] OTHER        -> TRUE

\* what a function call does: raise exc, or return val
Return(v) == [exc |-> "", val |-> v]
Raise(e)  == [exc |-> e, val |-> None]

-----------------------------------------------------------------------------
(* The ZFS namespace the mount can meet *)

Pool == <<"t">>

\* dataset and snapshot names as `zfs list` prints them
DsA   == <<"t", "/", "a">>
DsAB  == <<"t", "/", "a", "b">>              \* sibling whose name extends DsA
DsAC  == <<"t", "/", "a", "/", "c">>         \* child dataset of DsA
SnapA1  == DsA \o <<"@", "1">>
SnapA2  == DsA \o <<"@", "2">>
SnapAB1 == DsAB \o <<"@", "1">>
SnapAC1 == DsAC \o <<"@", "1">>

SnapNames == {SnapA1, SnapA2, SnapAB1, SnapAC1}

\* creation times as printed by `zfs list -p`: decimal seconds
Ctimes == {<<"9">>, <<"1", "0">>, <<"2", "0">>}

Rows == [name : SnapNames, creation : Ctimes]

\* a listing never names a snapshot twice
Injective(rows) ==
    \A i, j \in 1..Len(rows) : rows[i].name = rows[j].name => i = j

SeqsUpTo(S, n) == UNION {[1..k -> S] : k \in 0..n}

Listings == {l \in SeqsUpTo(Rows, MaxSnaps) : Injective(l)}

-----------------------------------------------------------------------------
(* zfs_call: lines of the command's standard output, each already split on *)
(* tabs.  ok = FALSE is a non-zero exit code or output on standard error.  *)

\* proc.stdout.strip().split('\n') with every line split on '\t':
\* empty output is one empty line, which has one empty field
ListLines(rows) ==
    IF rows = <<>> THEN << << <<>> >> >>
    ELSE [i \in 1..Len(rows) |-> <<rows[i].name, rows[i].creation>>]

\* a slip that fails only when the command printed nothing
zfs_call_lenient(ok, lines) ==
    IF lines = <<>> THEN Raise("RuntimeError") ELSE Return(lines)

zfs_call(ok, lines) == IF ok THEN Return(lines) ELSE Raise("RuntimeError")

-----------------------------------------------------------------------------
(* find_closest_snapshot *)

\* first loop: snap_names, ctimes and snap_ctime after the lines; exc is
\* "ValueError" when a line does not unpack into name, ctime
RECURSIVE Scan(_, _, _, _)
Scan(lines, dataset, snapshot, acc) ==
    IF lines = <<>> THEN acc
    ELSE LET line == Head(lines) IN
         IF Len(line) # 2 THEN [acc EXCEPT !.exc = "ValueError"]
         ELSE LET name  == line[1]
                  ctime == line[2]
                  next  == IF StartsWith(name, dataset)
                           THEN IF name = snapshot
                                THEN [acc EXCEPT !.snap_ctime = Str(ctime)]
                                ELSE [acc EXCEPT !.snap_names = Append(@, name),
                                                 !.ctimes = Append(@, ctime)]
                           ELSE acc
              IN  Scan(Tail(lines), dataset, snapshot, next)

\* second loop: <<closest_snap, closest_ctime>> after candidates i..n
RECURSIVE Closest(_, _, _, _, _)
Closest(snap_names, ctimes, snap_ctime, i, best) ==
    IF i > Len(snap_names) THEN best
    ELSE LET snap  == snap_names[i]
             ctime == ctimes[i]
             take  == /\ StrLess(ctime, snap_ctime)
                      /\ \/ ~Truthy(best.closest_ctime)
                         \/ StrLess(best.closest_ctime.s, ctime)
             next  == IF take
                      THEN [closest_snap |-> Str(snap), closest_ctime |-> Str(ctime)]
                      ELSE best
         IN  Closest(snap_names, ctimes, snap_ctime, i + 1, next)

find_closest_snapshot(snapshot, ok, rows) ==
    LET dataset == SplitFirst(snapshot, "@")
        out     == zfs_call(ok, ListLines(rows))
    IN  IF out.exc # "" THEN Raise(out.exc)
        ELSE LET st == Scan(out.val, dataset, snapshot,
                            [snap_names |-> <<>>, ctimes |-> <<>>,
                             snap_ctime |-> None, exc |-> ""])
             IN  IF st.exc # "" THEN Raise(st.exc)
                 ELSE IF st.snap_ctime = None
                 THEN Return(RuntimeError(snapshot))
                 ELSE Return(Closest(st.snap_names, st.ctimes, st.snap_ctime.s, 1,
                                     [closest_snap |-> None, closest_ctime |-> None]
                                    ).closest_snap)

-----------------------------------------------------------------------------
(* The serializer, `zfs send` *)

\* the command line built by get_size and SendBuffer.__init__: the branch
\* taken on `if from_snap`, and the objects put in the argument list
SendArgs(from_snap, zpath) ==
    IF Truthy(from_snap)
    THEN [incremental |-> TRUE, from_snap |-> from_snap, zpath |-> zpath]
    ELSE [incremental |-> FALSE, from_snap |-> None, zpath |-> zpath]

\* subprocess.run and Popen accept only strings in the argument list
ArgsAreStrings(args) == args.incremental => args.from_snap.t = "str"

\* outcomes of the dry run `zfs send -n -v -P`: it fails, or its second
\* line carries the estimate
DryRuns == [ok : BOOLEAN, size : 0..MaxSize]

-----------------------------------------------------------------------------
(* get_size *)

get_size(zpath, ok, rows, dry) ==
    LET from_snap == find_closest_snapshot(zpath, ok, rows) IN
    IF from_snap.exc # "" THEN [exc |-> from_snap.exc, val |-> 0, args |-> None]
    ELSE LET args == SendArgs(from_snap.val, zpath) IN
         IF ~ArgsAreStrings(args) THEN [exc |-> "TypeError", val |-> 0, args |-> args]
         ELSE IF ~dry.ok THEN [exc |-> "RuntimeError", val |-> 0, args |-> args]
         ELSE [exc |-> "", val |-> dry.size, args |-> args]

-----------------------------------------------------------------------------
(* FuseSnapshot: path resolution and getattr *)

_path2zpath(path) == zpool \o RStrip(path, "/")

\* stat.S_IFREG, stat.S_IFDIR, stat.S_IRUSR, stat.S_IXUSR, and stat.S_IFMT's mask
S_IFREG == 32768
S_IFDIR == 16384
S_IRUSR == 256
S_IXUSR == 64
S_IFMT(mode) == (mode \div 4096) * 4096

\* Python's | on non-negative integers
RECURSIVE BitOr(_, _)
BitOr(a, b) ==
    IF a = 0 THEN b
    ELSE IF b = 0 THEN a
    ELSE 2 * BitOr(a \div 2, b \div 2) + (IF a % 2 = 1 \/ b % 2 = 1 THEN 1 ELSE 0)

\* creation time `zfs list` prints for a filesystem
DsCtime == <<"5">>

\* lines of `zfs list -H -p -o name,type,creation zpath`; no line when the
\* node does not exist (zfs then exits non-zero)
NodeLines(zpath, rows, dsets) ==
    LET hits == {i \in 1..Len(rows) : rows[i].name = zpath} IN
    IF hits # {}
    THEN LET i == CHOOSE i \in hits : TRUE
         IN  << <<zpath, <<"snapshot">>, rows[i].creation>> >>
    ELSE IF zpath = zpool \/ \E i \in 1..Len(dsets) : dsets[i].full_path = zpath
    THEN << <<zpath, <<"filesystem">>, DsCtime>> >>
    ELSE <<>>

\* a slip that reports the estimate as it is, not doubled
Attrs_undoubled(inode_type, ctime, st_size) ==
    [st_atime |-> ctime, st_ctime |-> ctime, st_gid |-> 0,
     st_mode  |-> BitOr(BitOr(inode_type, S_IRUSR), S_IXUSR),
     st_mtime |-> ctime, st_nlink |-> 1, st_size |-> st_size, st_uid |-> 0]

\* the record getattr returns: st_size is doubled first
Attrs(inode_type, ctime, st_size) ==
    [st_atime |-> ctime, st_ctime |-> ctime, st_gid |-> 0,
     st_mode  |-> BitOr(BitOr(inode_type, S_IRUSR), S_IXUSR),
     st_mtime |-> ctime, st_nlink |-> 1, st_size |-> st_size * 2, st_uid |-> 0]

\* env: [node_ok, list_ok, dry] - whether the query of the node and the
\* snapshot listing succeed, and the dry run
getattr(path, env) ==
    LET zpath == _path2zpath(path)
        lines == NodeLines(zpath, snapshots, datasets)
        out   == zfs_call(env.node_ok /\ lines # <<>>, lines)
    IN  IF out.exc # "" THEN [exc |-> out.exc, val |-> None, sized |-> FALSE, est |-> 0]
        ELSE
        LET line       == out.val[1]
            ztype      == line[2]
            ctime      == IntVal(line[3])
            snap       == ztype = <<"snapshot">>
            inode_type == IF snap THEN S_IFREG ELSE S_IFDIR
            size       == IF snap THEN get_size(zpath, env.list_ok, snapshots, env.dry)
                          ELSE [exc |-> "", val |-> 0, args |-> None]
        IN  IF size.exc # "" THEN [exc |-> size.exc, val |-> None, sized |-> snap, est |-> 0]
            ELSE [exc   |-> "",
                  sized |-> snap,
                  est   |-> size.val,
                  val   |-> Attrs(inode_type, ctime, size.val)]

-----------------------------------------------------------------------------
(* SendBuffer *)

\* bytes a serializer can write
Bytes   == {0, 1}
Streams == SeqsUpTo(Bytes, MaxStream)

\* a slip that builds the session although Popen failed
SendBuffer_init_unchecked(zpath, env) ==
    LET from_snap == find_closest_snapshot(zpath, env.list_ok, snapshots) IN
    IF from_snap.exc # "" THEN Raise(from_snap.exc)
    ELSE LET cmd == SendArgs(from_snap.val, zpath) IN
         IF ~ArgsAreStrings(cmd) THEN Raise("TypeError")
         ELSE Return([pointer   |-> 0,
                      from_snap |-> from_snap.val,
                      send_proc |-> [pid |-> env.spawn.pid, cmd |-> cmd,
                                     stream |-> env.spawn.stream, taken |-> 0,
                                     died |-> FALSE, terminated |-> FALSE]])

\* SendBuffer.__init__; env: [list_ok, spawn]: whether the snapshot listing
\* succeeds, and Popen's outcome: it fails, or a process with the
\* id spawn.pid runs that writes spawn.stream to its pipe.  The object keeps
\* pointer, from_snap and send_proc; send_proc is the process: its id and
\* command line, the bytes it writes, how many of them were taken from the
\* pipe, whether it died before it wrote them all, and whether it was sent
\* a terminate signal.
SendBuffer_init(zpath, env) ==
    LET from_snap == find_closest_snapshot(zpath, env.list_ok, snapshots) IN
    IF from_snap.exc # "" THEN Raise(from_snap.exc)
    ELSE LET cmd == SendArgs(from_snap.val, zpath) IN
         IF ~ArgsAreStrings(cmd) THEN Raise("TypeError")
         ELSE IF ~env.spawn.ok THEN Raise("OSError")
         ELSE Return([pointer   |-> 0,
                      from_snap |-> from_snap.val,
                      send_proc |-> [pid |-> env.spawn.pid, cmd |-> cmd,
                                     stream |-> env.spawn.stream, taken |-> 0,
                                     died |-> FALSE, terminated |-> FALSE]])

\* a slip that hands over what one write left in the pipe: a single byte
PipeRead_short(proc, n) ==
    LET last == IF proc.taken + 1 > Len(proc.stream) THEN Len(proc.stream)
                ELSE proc.taken + 1
    IN  [data |-> SubSeq(proc.stream, proc.taken + 1, last),
         proc |-> [proc EXCEPT !.taken = last]]

\* send_proc.stdout.read(n): up to n bytes, fewer only at end of stream
PipeRead(proc, n) ==
    LET last == IF proc.taken + n > Len(proc.stream) THEN Len(proc.stream)
                ELSE proc.taken + n
    IN  [data |-> SubSeq(proc.stream, proc.taken + 1, last),
         proc |-> [proc EXCEPT !.taken = last]]

\* a slip that leaves out `self.pointer += len(data)`
SendBuffer_read_stuck(self, length, offset) ==
    LET seek  == offset > self.pointer
        skip  == IF seek THEN PipeRead(self.send_proc, offset - self.pointer).proc
                 ELSE self.send_proc
        ptr   == IF seek THEN offset ELSE self.pointer
        rd    == PipeRead(skip, length)
    IN  [self |-> [self EXCEPT !.pointer = ptr, !.send_proc = rd.proc],
         data |-> rd.data]

\* a slip that moves the pointer to the offset and leaves the gap in the pipe
SendBuffer_read_noseek(self, length, offset) ==
    LET seek  == offset > self.pointer
        ptr   == IF seek THEN offset ELSE self.pointer
        rd    == PipeRead(self.send_proc, length)
    IN  [self |-> [self EXCEPT !.pointer = ptr + Len(rd.data), !.send_proc = rd.proc],
         data |-> rd.data]

\* a slip that sets the pointer to the offset on a backward read as well
SendBuffer_read_rewind(self, length, offset) ==
    LET seek  == offset > self.pointer
        skip  == IF seek THEN PipeRead(self.send_proc, offset - self.pointer).proc
                 ELSE self.send_proc
        rd    == PipeRead(skip, length)
    IN  [self |-> [self EXCEPT !.pointer = offset + Len(rd.data), !.send_proc = rd.proc],
         data |-> rd.data]

\* a slip that answers a backward read with the bytes at the offset, as if
\* the pipe could be rewound
SendBuffer_read_seekable(self, length, offset) ==
    LET seek  == offset > self.pointer
        back  == offset < self.pointer
        skip  == IF seek THEN PipeRead(self.send_proc, offset - self.pointer).proc
                 ELSE IF back THEN [self.send_proc EXCEPT !.taken = offset]
                 ELSE self.send_proc
        ptr   == IF seek \/ back THEN offset ELSE self.pointer
        rd    == PipeRead(skip, length)
    IN  [self |-> [self EXCEPT !.pointer = ptr + Len(rd.data), !.send_proc = rd.proc],
         data |-> rd.data]

\* SendBuffer.read: the buffer after the call, and the data returned
SendBuffer_read(self, length, offset) ==
    LET seek  == offset > self.pointer
        skip  == IF seek THEN PipeRead(self.send_proc, offset - self.pointer).proc
                 ELSE self.send_proc
        ptr   == IF seek THEN offset ELSE self.pointer
        rd    == PipeRead(skip, length)
    IN  [self |-> [self EXCEPT !.pointer = ptr + Len(rd.data), !.send_proc = rd.proc],
         data |-> rd.data]

\* a slip that leaves the process running
SendBuffer_close_noop(self) == self

\* SendBuffer.close
SendBuffer_close(self) == [self EXCEPT !.send_proc.terminated = TRUE]

-----------------------------------------------------------------------------
(* FuseSnapshot.readdir and statfs *)

\* index of the last "/" or "@" of a name, 0 when it has none
RECURSIVE LastSep(_, _)
LastSep(s, i) ==
    IF i = 0 THEN 0
    ELSE IF s[i] \in {"/", "@"} THEN i
    ELSE LastSep(s, i - 1)

\* a catalog entry: simplezfs gives every dataset its full path and its parent
Dataset(full_path) ==
    [full_path |-> full_path,
     parent    |-> SubSeq(full_path, 1, LastSep(full_path, Len(full_path)) - 1)]

\* the list comprehension of readdir's loop over list_datasets(parent=zpath)
RECURSIVE Children(_, _)
Children(ds, zpath) ==
    IF ds = <<>> THEN <<>>
    ELSE LET d == Head(ds) IN
         (IF d.parent = zpath THEN <<LStrip(d.full_path, zpool \o <<"/">>)>> ELSE <<>>)
         \o Children(Tail(ds), zpath)

\* the entries readdir yields, in order
readdir(path) ==
    LET zpath == _path2zpath(path)
    IN  << <<".">>, <<".", ".">> >> \o Children(datasets, zpath)

\* the keys statfs looks up, and the local dict stv
StatfsKeys == {"f_bavail", "f_bfree", "f_blocks", "f_bsize", "f_favail",
               "f_ffree", "f_files", "f_flag", "f_frsize", "f_namemax"}
stv == [f_bsize |-> 4096, f_blocks |-> 65536, f_bfree |-> 0, f_ffree |-> 0,
        f_bavail |-> 0, f_namelen |-> 1024, f_flag |-> <<>>]

\* builtin getattr(obj, name, default) on a dict: its keys are items, not
\* attributes, so a key name is never found
builtin_getattr(obj, name, default) == default

statfs(path) == [key \in StatfsKeys |-> builtin_getattr(stv, key, 0)]

-----------------------------------------------------------------------------
(* Inputs of the operations *)

Slash == <<"/">>

\* paths the kernel asks about, relative to the mount point
SnapPaths == {<<"/", "a", "@", "1">>, <<"/", "a", "@", "2">>, <<"/", "a", "@", "3">>}
DirPaths  == {Slash, <<"/", "a">>, <<"/", "a", "/">>, <<"/", "z">>}
AttrPaths == {Slash, <<"/", "a", "/">>, <<"/", "z">>,
              <<"/", "a", "@", "1">>, <<"/", "a", "@", "2">>}

Handles == 1..(MaxOpens + 1)

GetattrEnvs == [node_ok : BOOLEAN, list_ok : BOOLEAN, dry : DryRuns]
OpenEnvs    == [list_ok : BOOLEAN, spawn_ok : BOOLEAN]

-----------------------------------------------------------------------------
(* Operations of the mounted filesystem *)

\* a slip that numbers a handle by the size of the table
NewBufferId_len == Cardinality(DOMAIN open_buffers) + 1

\* the handle open allocates
NewBufferId == max_buffer_id + 1

\* a slip that empties the table
Del_all(d, k) == <<>>

\* a slip that closes the session and leaves its entry in the table
Del_kept(d, k) == d

\* del d[k]
Del(d, k) == [h \in DOMAIN d \ {k} |-> d[h]]

\* the id the system gives the next process
NewPid == Cardinality(DOMAIN procs) + 1

\* FuseSnapshot.open
Open(path, env) ==
    /\ max_buffer_id < MaxOpens
    /\ LET zpath     == _path2zpath(path)
           buffer_id == NewBufferId
           sb        == SendBuffer_init(zpath,
                           [list_ok |-> env.list_ok,
                            spawn   |-> [ok |-> env.spawn_ok, pid |-> NewPid,
                                         stream |-> send_out[path]]])
       IN  /\ max_buffer_id' = buffer_id
           /\ IF sb.exc # ""
              THEN /\ UNCHANGED <<open_buffers, hist, procs, returned>>
                   /\ ret' = [op |-> "open", arg |-> path, env |-> env,
                              exc |-> sb.exc, val |-> 0]
              ELSE /\ open_buffers' = [h \in DOMAIN open_buffers \cup {buffer_id} |->
                                          IF h = buffer_id THEN sb.val ELSE open_buffers[h]]
                   /\ hist' = [h \in DOMAIN hist \cup {buffer_id} |->
                                  IF h = buffer_id
                                  THEN [path |-> path, calls |-> <<>>, out |-> <<>>]
                                  ELSE hist[h]]
                   /\ procs' = [p \in DOMAIN procs \cup {sb.val.send_proc.pid} |->
                                   IF p \in DOMAIN procs THEN procs[p]
                                   ELSE [terminated |-> sb.val.send_proc.terminated]]
                   /\ returned' = Append(returned, buffer_id)
                   /\ ret' = [op |-> "open", arg |-> path, env |-> env,
                              exc |-> "", val |-> buffer_id]
    /\ UNCHANGED <<zpool, snapshots, send_out, datasets, released>>

\* a slip that keeps one session for every handle
Session_shared(fh) == open_buffers[CHOOSE h \in DOMAIN open_buffers : TRUE]

\* self._open_buffers[fh]
Session(fh) == open_buffers[fh]

\* FuseSnapshot.read
Read(fh, length, offset) ==
    /\ IF fh \notin DOMAIN open_buffers
       THEN /\ ret' = [op |-> "read", arg |-> fh, exc |-> "KeyError", val |-> <<>>]
            /\ UNCHANGED <<open_buffers, hist>>
       ELSE /\ Len(hist[fh].calls) < MaxReads
            /\ LET r == SendBuffer_read(Session(fh), length, offset) IN
               /\ open_buffers' = [open_buffers EXCEPT ![fh] = r.self]
               /\ hist' = [hist EXCEPT
                             ![fh].calls = Append(@, [length  |-> length,
                                                      offset  |-> offset,
                                                      pointer |-> open_buffers[fh].pointer,
                                                      got     |-> Len(hist[fh].out)]),
                             ![fh].out = @ \o r.data]
               /\ ret' = [op |-> "read", arg |-> fh, exc |-> "", val |-> r.data]
    /\ UNCHANGED <<zpool, snapshots, send_out, datasets, max_buffer_id, released, procs,
                   returned>>

\* FuseSnapshot.release
Release(fh) ==
    /\ IF fh \notin DOMAIN open_buffers
       THEN /\ ret' = [op |-> "release", arg |-> fh, exc |-> "KeyError", val |-> None]
            /\ UNCHANGED <<open_buffers, hist, released, procs>>
       ELSE /\ LET closed == SendBuffer_close(Session(fh)) IN
               /\ procs' = [procs EXCEPT ![closed.send_proc.pid].terminated =
                                             closed.send_proc.terminated]
               /\ ret' = [op |-> "release", arg |-> fh, exc |-> "", val |-> closed]
            /\ open_buffers' = Del(open_buffers, fh)
            /\ hist' = Del(hist, fh)
            /\ released' = released \cup {fh}
    /\ UNCHANGED <<zpool, snapshots, send_out, datasets, max_buffer_id, returned>>

\* FuseSnapshot.getattr
GetAttr(path, env) ==
    /\ ret' = [op |-> "getattr", arg |-> path, env |-> env] @@ getattr(path, env)
    /\ UNCHANGED <<zpool, snapshots, send_out, datasets, open_buffers, max_buffer_id, hist,
                   released, procs, returned>>

\* FuseSnapshot.readdir, iterated to its end
ReadDir(path) ==
    /\ ret' = [op |-> "readdir", arg |-> path, exc |-> "", val |-> readdir(path)]
    /\ UNCHANGED <<zpool, snapshots, send_out, datasets, open_buffers, max_buffer_id, hist,
                   released, procs, returned>>

\* FuseSnapshot.statfs
StatFs(path) ==
    /\ ret' = [op |-> "statfs", arg |-> path, exc |-> "", val |-> statfs(path)]
    /\ UNCHANGED <<zpool, snapshots, send_out, datasets, open_buffers, max_buffer_id, hist,
                   released, procs, returned>>

\* find_closest_snapshot and get_size, called on their own
FindClosest(snapshot, ok) ==
    /\ ret' = [op |-> "find_closest_snapshot", arg |-> snapshot, ok |-> ok]
                 @@ find_closest_snapshot(snapshot, ok, snapshots)
    /\ UNCHANGED <<zpool, snapshots, send_out, datasets, open_buffers, max_buffer_id,
                   hist, released, procs, returned>>

GetSize(zpath, ok, dry) ==
    /\ ret' = [op |-> "get_size", arg |-> zpath, ok |-> ok, dry |-> dry]
                 @@ get_size(zpath, ok, snapshots, dry)
    /\ UNCHANGED <<zpool, snapshots, send_out, datasets, open_buffers, max_buffer_id,
                   hist, released, procs, returned>>

\* FuseSnapshot.__init__
Mounted ==
    /\ open_buffers = <<>>
    /\ max_buffer_id = 0
    /\ hist = <<>>
    /\ released = {}
    /\ procs = <<>>
    /\ returned = <<>>
    /\ ret = [op |-> "init", arg |-> <<>>, exc |-> "", val |-> None]

\* a pool with two snapshots of t/a, or with none at all
MountListing ==
    <<[name |-> SnapA1, creation |-> <<"1", "0">>],
      [name |-> SnapA2, creation |-> <<"2", "0">>]>>
MountListings == {<<>>, MountListing}
MountDatasets == <<Dataset(DsA), Dataset(SnapA1), Dataset(SnapA2)>>
MountStreams ==
    [p \in SnapPaths |-> IF p = <<"/", "a", "@", "1">> THEN <<0, 1, 1>>
                         ELSE IF p = <<"/", "a", "@", "2">> THEN <<1>>
                         ELSE <<>>]

Init ==
    /\ zpool = Pool
    /\ snapshots \in MountListings
    /\ send_out = MountStreams
    /\ datasets = MountDatasets
    /\ Mounted

\* The life of the handles: every outcome of open on every snapshot path,
\* reads of one length at the start and at the far end of the offsets (the
\* sessions' reads are explored in full by SpecStream), and release.
Next ==
    \/ \E path \in SnapPaths, env \in OpenEnvs : Open(path, env)
    \/ \E fh \in Handles, offset \in {0, MaxOff} : Read(fh, MaxLen, offset)
    \/ \E fh \in Handles : Release(fh)

Spec == Init /\ [][Next]_vars

-----------------------------------------------------------------------------
(* Every operation of the mounted filesystem, in any order *)

\* getattr's queries: the node is there, and the listing and the dry run
\* succeed or fail
OpsEnvs == {e \in GetattrEnvs : e.node_ok /\ e.dry.size = MaxSize}

\* Opens with every outcome, reads from the start, releases, and the three
\* queries on the root and on a snapshot.
NextOps ==
    \/ \E path \in SnapPaths, env \in OpenEnvs : Open(path, env)
    \/ \E fh \in Handles : Read(fh, MaxLen, 0)
    \/ \E fh \in Handles : Release(fh)
    \/ \E path \in {Slash, <<"/", "a", "@", "1">>}, env \in OpsEnvs : GetAttr(path, env)
    \/ \E path \in {Slash, <<"/", "a">>} : ReadDir(path)
    \/ \E path \in {Slash, <<"/", "a", "@", "1">>} : StatFs(path)

SpecOps == Init /\ [][NextOps]_vars

-----------------------------------------------------------------------------
(* Sessions on one snapshot, for every stream the serializer can write *)

InitStream ==
    /\ zpool = Pool
    /\ snapshots = MountListing
    /\ send_out \in {[p \in SnapPaths |-> s] : s \in Streams}
    /\ datasets = MountDatasets
    /\ Mounted

NextStream ==
    \/ \E env \in OpenEnvs : Open(<<"/", "a", "@", "2">>, env)
    \/ \E fh \in Handles, length \in 1..MaxLen, offset \in 0..MaxOff :
          Read(fh, length, offset)
    \/ \E fh \in Handles : Release(fh)

SpecStream == InitStream /\ [][NextStream]_vars

-----------------------------------------------------------------------------
(* One session on one snapshot, for every stream and every read *)

\* no open has returned a handle yet
NoSessionYet == returned = <<>>

\* What a session does depends on its own reads only: each behaviour has
\* one session, opened after any failed opens, and the consumer reads and
\* releases the handle it was given.
NextSession ==
    \/ \E env \in OpenEnvs : NoSessionYet /\ Open(<<"/", "a", "@", "2">>, env)
    \/ \E fh \in DOMAIN open_buffers, length \in 1..MaxLen, offset \in 0..MaxOff :
          Read(fh, length, offset)
    \/ \E fh \in DOMAIN open_buffers : Release(fh)

SpecSession == InitStream /\ [][NextSession]_vars

-----------------------------------------------------------------------------
(* The catalog queries, for every snapshot listing *)

InitCatalog ==
    /\ zpool = Pool
    /\ snapshots \in Listings
    /\ send_out = MountStreams
    /\ datasets = <<Dataset(DsA), Dataset(DsAB), Dataset(DsAC)>>
    /\ Mounted

\* The queries keep no state: each behaviour makes one call on its listing.
FirstCall == ret.op = "init"

NextCatalog ==
    \/ \E snapshot \in SnapNames, ok \in BOOLEAN :
          FirstCall /\ FindClosest(snapshot, ok)
    \/ \E zpath \in SnapNames, ok \in BOOLEAN, dry \in DryRuns :
          FirstCall /\ GetSize(zpath, ok, dry)
    \/ \E path \in AttrPaths, env \in GetattrEnvs :
          FirstCall /\ GetAttr(path, env)

SpecCatalog == InitCatalog /\ [][NextCatalog]_vars

-----------------------------------------------------------------------------
(* Directory listings, for every pool name and dataset catalog *)

ZPools == {<<"t">>, <<"a", "b">>}

\* names a dataset under the pool root can have
KidNames == {<<"a">>, <<"t">>, <<"t", "a">>, <<"t", ".">>, <<"t", ".", ".">>,
             <<"a", "/", "t">>, <<"a", "@", "1">>}

Catalogs(zp) ==
    {c \in SeqsUpTo({Dataset(zp \o Slash \o k) : k \in KidNames}, MaxKids) :
        \A i, j \in 1..Len(c) : c[i] = c[j] => i = j}

InitDir ==
    /\ zpool \in ZPools
    /\ snapshots = <<>>
    /\ send_out = MountStreams
    /\ datasets \in Catalogs(zpool)
    /\ Mounted

\* readdir and statfs keep no state either: one call on each catalog.
NextDir ==
    \/ \E path \in DirPaths : FirstCall /\ ReadDir(path)
    \/ \E path \in DirPaths : FirstCall /\ StatFs(path)

SpecDir == InitDir /\ [][NextDir]_vars

-----------------------------------------------------------------------------
(* Sessions whose serializer can die before it has written its stream *)

\* The process of session fh exits after it wrote k bytes, fewer than its
\* whole stream and no fewer than were taken from the pipe already: what is
\* left in the pipe can still be read, and then the pipe is at end of file.
Die(fh) ==
    /\ fh \in DOMAIN open_buffers
    /\ LET proc == open_buffers[fh].send_proc IN
       /\ ~proc.died
       /\ \E k \in proc.taken..(Len(proc.stream) - 1) :
             open_buffers' = [open_buffers EXCEPT
                                ![fh].send_proc.stream = SubSeq(proc.stream, 1, k),
                                ![fh].send_proc.died = TRUE]
    /\ UNCHANGED <<zpool, snapshots, send_out, datasets, max_buffer_id, hist, released,
                   procs, returned, ret>>

InitFault ==
    /\ zpool = Pool
    /\ snapshots = MountListing
    /\ send_out = MountStreams
    /\ datasets = MountDatasets
    /\ Mounted

NextFault ==
    \/ \E path \in SnapPaths, env \in OpenEnvs : Open(path, env)
    \/ \E fh \in Handles, length \in 1..MaxLen, offset \in {0, MaxOff} :
          Read(fh, length, offset)
    \/ \E fh \in Handles : Release(fh)
    \/ \E fh \in Handles : Die(fh)

SpecFault == InitFault /\ [][NextFault]_vars

-----------------------------------------------------------------------------
(* Properties of find_closest_snapshot, get_size and getattr (SpecCatalog) *)

\* the listing has a row for name
Listed(name) == \E i \in 1..Len(snapshots) : snapshots[i].name = name

\* creation time of a listed snapshot, as the integer the listing prints
CreationOf(name) ==
    IntVal(snapshots[CHOOSE i \in 1..Len(snapshots) : snapshots[i].name = name].creation)

\* the snapshots find_closest_snapshot chooses among for a target
Candidates(target) ==
    {snapshots[i].name : i \in {j \in 1..Len(snapshots) :
        /\ StartsWith(snapshots[j].name, SplitFirst(target, "@"))
        /\ snapshots[j].name # target}}

\* a call of find_closest_snapshot that returned, for a target in the listing
FoundFor == ret.op = "find_closest_snapshot" /\ ret.exc = "" /\ Listed(ret.arg)

\* C2: for a target present in the listing, find_closest_snapshot returns
\* None or another snapshot of the target's own dataset (same name before
\* '@'), never a snapshot of a dataset whose name merely extends it.
C2_BaseOfSameDataset ==
    FoundFor =>
        \/ ret.val = None
        \/ /\ ret.val.t = "str"
           /\ ret.val.s # ret.arg
           /\ SplitFirst(ret.val.s, "@") = SplitFirst(ret.arg, "@")

\* C3: with creation times ordered as integers, a returned base is strictly
\* earlier than the target with no candidate strictly between them, and None
\* is returned exactly when no candidate is strictly earlier than the target.
C3_BaseIsClosestEarlier ==
    FoundFor =>
        LET t       == CreationOf(ret.arg)
            earlier == {c \in Candidates(ret.arg) : CreationOf(c) < t}
        IN  /\ (ret.val = None) <=> (earlier = {})
            /\ ret.val # None =>
                  /\ ret.val.t = "str"
                  /\ ret.val.s \in earlier
                  /\ \A c \in earlier : CreationOf(c) <= CreationOf(ret.val.s)

\* C4: when the target is absent from the listing, find_closest_snapshot
\* raises an error, and get_size is handed no value that it uses as the
\* base of an incremental send.
C4_AbsentTargetRaises ==
    /\ (ret.op = "find_closest_snapshot" /\ ret.ok /\ ~Listed(ret.arg)) => ret.exc # ""
    /\ (ret.op = "get_size" /\ ret.ok /\ ~Listed(ret.arg) /\ ret.args # None)
          => ~ret.args.incremental

\* the node a getattr call was about is listed as a snapshot
AttrOfSnapshot == Listed(_path2zpath(ret.arg))

\* C9: getattr reports a regular file of size 2 * get_size(node) for a
\* snapshot, and a directory of size 0 for any other node, for which it does
\* not call get_size.
C9_GetattrModeAndSize ==
    ret.op = "getattr" =>
        /\ ret.sized => AttrOfSnapshot
        /\ ret.exc = "" =>
              IF AttrOfSnapshot
              THEN /\ S_IFMT(ret.val.st_mode) = S_IFREG
                   /\ ret.sized
                   /\ ret.val.st_size = 2 * ret.est
              ELSE /\ S_IFMT(ret.val.st_mode) = S_IFDIR
                   /\ ret.val.st_size = 0

\* C9 happens: getattr answered for a snapshot whose estimate is not 0
C9_Witness ==
    /\ ret.op = "getattr" /\ ret.exc = "" /\ AttrOfSnapshot
    /\ ret.est > 0 /\ ret.val.st_size = 2 * ret.est

\* C17: when a query run through zfs_call exits non-zero or writes to
\* standard error, its consumer gets RuntimeError and no line: whatever
\* the query printed, find_closest_snapshot returns no base, get_size builds
\* no command from a failed listing and returns no size from a failed dry
\* run, and getattr returns no attributes.
C17_FailedQueryGivesNoLines ==
    /\ (ret.op = "find_closest_snapshot" /\ ~ret.ok)
          => (ret.exc = "RuntimeError" /\ ret.val = None)
    /\ (ret.op = "get_size" /\ ~ret.ok)
          => (ret.exc = "RuntimeError" /\ ret.val = 0 /\ ret.args = None)
    /\ (ret.op = "get_size" /\ ~ret.dry.ok) => (ret.exc # "" /\ ret.val = 0)
    /\ (ret.op = "getattr" /\ ~ret.env.node_ok)
          => (ret.exc = "RuntimeError" /\ ret.val = None /\ ~ret.sized)
    /\ (ret.op = "getattr" /\ AttrOfSnapshot /\ ret.env.node_ok
            /\ (~ret.env.list_ok \/ ~ret.env.dry.ok))
          => (ret.exc # "" /\ ret.val = None)

\* C17 happens: the query failed although its output named the target and
\* a base for it
C17_Witness ==
    /\ ret.op = "find_closest_snapshot" /\ ~ret.ok /\ Listed(ret.arg)
    /\ find_closest_snapshot(ret.arg, TRUE, snapshots).val # None
    /\ ret.exc = "RuntimeError"

-----------------------------------------------------------------------------
(* Properties of readdir (SpecDir) *)

\* s without the prefix p, when s starts with p
RemovePrefix(s, p) ==
    IF StartsWith(s, p) THEN SubSeq(s, Len(p) + 1, Len(s)) ELSE s

\* catalog entries whose parent is the directory a readdir call was about
RECURSIVE KidsOf(_, _)
KidsOf(ds, zpath) ==
    IF ds = <<>> THEN <<>>
    ELSE (IF Head(ds).parent = zpath THEN <<Head(ds)>> ELSE <<>>)
         \o KidsOf(Tail(ds), zpath)

\* C7: each catalog entry whose parent is the resolved path is yielded as
\* its full path without the leading root + '/', and with nothing else
\* removed.
C7_RootPrefixStripped ==
    ret.op = "readdir" =>
        LET kids == KidsOf(datasets, _path2zpath(ret.arg)) IN
        /\ Len(ret.val) = 2 + Len(kids)
        /\ \A i \in 1..Len(kids) :
              ret.val[2 + i] = RemovePrefix(kids[i].full_path, zpool \o Slash)

\* C8: readdir yields '.' and then '..' first, each of them exactly once,
\* followed by one entry per catalog entry whose parent is the resolved path.
C8_DotEntriesFirstAndOnce ==
    ret.op = "readdir" =>
        /\ Len(ret.val) = 2 + Len(KidsOf(datasets, _path2zpath(ret.arg)))
        /\ ret.val[1] = <<".">>
        /\ ret.val[2] = <<".", ".">>
        /\ \A i \in 3..Len(ret.val) : ret.val[i] \notin {<<".">>, <<".", ".">>}

\* C16: for every path statfs reports a block size of 4096, 2**16 blocks,
\* and no free block and no free inode.
C16_StatfsPlaceholders ==
    ret.op = "statfs" =>
        /\ ret.val.f_bsize = 4096
        /\ ret.val.f_blocks = 65536
        /\ ret.val.f_bfree = 0 /\ ret.val.f_bavail = 0 /\ ret.val.f_ffree = 0

-----------------------------------------------------------------------------
(* Properties of the read sessions (SpecStream, SpecSession) *)

StartsAtZero(calls)  == calls # <<>> /\ calls[1].offset = 0
NonDecreasing(calls) ==
    \A i \in 1..(Len(calls) - 1) : calls[i].offset <= calls[i + 1].offset
\* no call asked for an offset beyond the bytes already returned
NoGap(calls) == \A i \in 1..Len(calls) : calls[i].offset <= calls[i].got

\* the session of handle h reads the output of `zfs send` for the snapshot
\* opened, against the base find_closest_snapshot chose
ReadsSendOf(h) ==
    LET zpath == _path2zpath(hist[h].path)
        proc  == open_buffers[h].send_proc
    IN  /\ proc.stream = send_out[hist[h].path]
        /\ proc.cmd = SendArgs(find_closest_snapshot(zpath, TRUE, snapshots).val, zpath)

\* the bytes returned on h are the stream up to the last byte taken from it
Reconstructs(h) ==
    LET proc == open_buffers[h].send_proc
    IN  hist[h].out = SubSeq(proc.stream, 1, proc.taken)

\* C1 as stated: reads on a handle whose offsets start at 0 and never
\* decrease return, concatenated, the serializer's stream up to the last
\* byte read, nothing twice and nothing dropped.
C1_SequentialReadsReconstruct ==
    \A h \in DOMAIN hist :
        (StartsAtZero(hist[h].calls) /\ NonDecreasing(hist[h].calls))
            => (ReadsSendOf(h) /\ Reconstructs(h))

\* C1 amended: the same, for reads none of which asks for an offset beyond
\* the number of bytes already returned on the handle.
C1_GaplessReadsReconstruct ==
    \A h \in DOMAIN hist :
        (StartsAtZero(hist[h].calls) /\ NonDecreasing(hist[h].calls)
            /\ NoGap(hist[h].calls))
            => (ReadsSendOf(h) /\ Reconstructs(h))

\* C1 happens: two reads in sequence returned two or more bytes
C1_Witness ==
    \E h \in DOMAIN hist :
        /\ Len(hist[h].calls) = 2
        /\ StartsAtZero(hist[h].calls) /\ NonDecreasing(hist[h].calls)
        /\ NoGap(hist[h].calls)
        /\ hist[h].calls[2].offset > 0
        /\ Len(hist[h].out) >= 2

\* the <<length, offset>> pairs of the reads made on h
CallsOn(h) ==
    [i \in 1..Len(hist[h].calls) |-> <<hist[h].calls[i].length, hist[h].calls[i].offset>>]

\* handle a read n bytes at 0 then n bytes at n, handle b read 2n bytes at
\* 0, and both are sessions on the same stream
SplitAndWhole(a, b, n) ==
    /\ open_buffers[a].send_proc.stream = open_buffers[b].send_proc.stream
    /\ CallsOn(a) = << <<n, 0>>, <<n, n>> >>
    /\ CallsOn(b) = << <<2 * n, 0>> >>

\* C10: n bytes at offset 0 and then n bytes at offset n give, concatenated,
\* what one read of 2n bytes at offset 0 gives on another fresh handle on
\* the same stream, also when the stream is shorter than 2n.
C10_SplitReadEqualsWhole ==
    \A a, b \in DOMAIN hist : \A n \in 1..MaxLen :
        SplitAndWhole(a, b, n) => hist[a].out = hist[b].out

\* C10 happens: the two handles exist and got two bytes each
C10_Witness ==
    \E a, b \in DOMAIN hist : \E n \in 1..MaxLen :
        SplitAndWhole(a, b, n) /\ Len(hist[b].out) = 2 * n

\* C10 happens as well on a stream shorter than 2n
C10_WitnessShort ==
    \E a, b \in DOMAIN hist : \E n \in 1..MaxLen :
        SplitAndWhole(a, b, n) /\ Len(open_buffers[a].send_proc.stream) < 2 * n

\* the step is a read() that reached the session of handle fh
ReadOn(fh) ==
    /\ fh \in DOMAIN hist /\ fh \in DOMAIN hist'
    /\ Len(hist'[fh].calls) = Len(hist[fh].calls) + 1

Min(a, b) == IF a <= b THEN a ELSE b

\* of the i-th read made on h: the count of bytes returned on h after it,
\* the bytes it returned, and the pointer it left
GotAfter(h, i) ==
    IF i < Len(hist[h].calls) THEN hist[h].calls[i + 1].got ELSE Len(hist[h].out)
DataOf(h, i) == SubSeq(hist[h].out, hist[h].calls[i].got + 1, GotAfter(h, i))
PointerAfter(h, i) ==
    IF i < Len(hist[h].calls) THEN hist[h].calls[i + 1].pointer
    ELSE open_buffers[h].pointer

\* C12: a read(length, offset) made when offset >= pointer returns exactly
\* s[offset .. min(offset + length, N)) of the session's stream s[0..N),
\* nothing when offset >= N: the bytes of the gap from the pointer to the
\* offset are taken from the pipe and dropped, no byte beyond the returned
\* ones is taken, and the pointer is left at offset + the count returned.
C12_ForwardReadReturnsSlice ==
    \A h \in DOMAIN hist : \A i \in 1..Len(hist[h].calls) :
        LET c    == hist[h].calls[i]
            proc == open_buffers[h].send_proc
            N    == Len(proc.stream)
            end  == Min(c.offset + c.length, N)
        IN  c.offset >= c.pointer =>
              /\ DataOf(h, i) = SubSeq(proc.stream, c.offset + 1, end)
              /\ c.offset >= N => DataOf(h, i) = <<>>
              /\ PointerAfter(h, i) = c.offset + Len(DataOf(h, i))
              /\ i = Len(hist[h].calls) => proc.taken = Min(c.offset + c.length, N)

\* C12 happens: a read over a forward gap returned bytes
C12_Witness ==
    \E h \in DOMAIN hist : \E i \in 1..Len(hist[h].calls) :
        /\ hist[h].calls[i].offset > hist[h].calls[i].pointer
        /\ DataOf(h, i) # <<>>

\* C13: the read pointer of a session is never negative, and no call,
\* whatever its offset and length, leaves it smaller than it found it.
C13_PointerOnlyIncreases ==
    /\ [](\A h \in DOMAIN open_buffers : open_buffers[h].pointer >= 0)
    /\ [][\A h \in DOMAIN open_buffers \cap DOMAIN open_buffers' :
             open_buffers'[h].pointer >= open_buffers[h].pointer]_vars

\* C13 happens: a read at an offset behind the pointer moved the pointer on
C13_Witness ==
    \E h \in DOMAIN hist : \E i \in 1..Len(hist[h].calls) :
        /\ hist[h].calls[i].offset < hist[h].calls[i].pointer
        /\ PointerAfter(h, i) > hist[h].calls[i].pointer

\* C14: a read(length, offset) made when offset < pointer raises no error
\* and returns s[pointer .. min(pointer + length, N)), the bytes next in the
\* pipe and not those at the offset; it takes no other byte from the pipe
\* and leaves the pointer at pointer + the count returned.
C14_BackwardReadNotRejected ==
    /\ [](\A h \in DOMAIN hist : \A i \in 1..Len(hist[h].calls) :
            LET c    == hist[h].calls[i]
                proc == open_buffers[h].send_proc
                end  == Min(c.pointer + c.length, Len(proc.stream))
            IN  c.offset < c.pointer =>
                  /\ DataOf(h, i) = SubSeq(proc.stream, c.pointer + 1, end)
                  /\ PointerAfter(h, i) = c.pointer + Len(DataOf(h, i))
                  /\ i = Len(hist[h].calls) => proc.taken = end)
    /\ [][\A fh \in DOMAIN open_buffers :
             (ReadOn(fh) /\ hist'[fh].calls[Len(hist'[fh].calls)].offset
                               < open_buffers[fh].pointer)
                => (ret'.op = "read" /\ ret'.arg = fh /\ ret'.exc = "")]_vars

\* C14 happens: a read at an offset behind the pointer returned bytes
C14_Witness ==
    \E h \in DOMAIN hist : \E i \in 1..Len(hist[h].calls) :
        /\ hist[h].calls[i].offset < hist[h].calls[i].pointer
        /\ DataOf(h, i) # <<>>

\* the session and the bytes returned when the reads calls, a sequence of
\* <<length, offset>>, are made in this order on the session self
RECURSIVE ReadAll(_, _, _)
ReadAll(self, calls, out) ==
    IF calls = <<>> THEN [self |-> self, out |-> out]
    ELSE LET r == SendBuffer_read(self, calls[1][1], calls[1][2])
         IN  ReadAll(r.self, Tail(calls), out \o r.data)

\* the session of h as open() stored it
Opened(h) == [open_buffers[h] EXCEPT !.pointer = 0, !.send_proc.taken = 0]

\* C18: a read on handle fh changes the session of fh only and leaves every
\* other open session as it was: its pointer, its pipe and what it returned
\* so far.  So whatever reads on other handles came in between, a handle's
\* reads leave its session and return the data that the same reads give
\* when they are the only calls made.
C18_ReadsOnHandlesIndependent ==
    /\ [][\A fh \in DOMAIN open_buffers : ReadOn(fh) =>
             \A g \in DOMAIN open_buffers \ {fh} :
                /\ g \in DOMAIN open_buffers' /\ open_buffers'[g] = open_buffers[g]
                /\ g \in DOMAIN hist' /\ hist'[g] = hist[g]]_vars
    /\ [](\A h \in DOMAIN hist :
            LET alone == ReadAll(Opened(h), CallsOn(h), <<>>)
            IN  hist[h].out = alone.out /\ open_buffers[h] = alone.self)

\* C18 happens: two handles are open, two reads were made on each at
\* different offsets, and they got different data
C18_Witness ==
    \E a, b \in DOMAIN hist :
        /\ Len(hist[a].calls) = 2 /\ Len(hist[b].calls) = 2
        /\ CallsOn(a) # CallsOn(b)
        /\ hist[a].out # <<>> /\ hist[b].out # <<>> /\ hist[a].out # hist[b].out
        /\ ret.op = "read" /\ ret.exc = ""

-----------------------------------------------------------------------------
(* Properties of the handle table (Spec) *)

\* the keys of the table
Keys == DOMAIN open_buffers

\* the entries of the table other than h are left as they were
OthersKept(h) ==
    \A g \in Keys \ {h} : g \in Keys' /\ open_buffers'[g] = open_buffers[g]

\* C15: the keys of the table change only in a step of open that returns
\* a handle, which adds that one key, new to the table, and in a step of
\* release, which removes the released key and no other; read, getattr,
\* readdir and statfs leave the keys and the counter as they were, and
\* release leaves the counter and every other entry as they were.
C15_TableFrame ==
    [][/\ Keys' # Keys => (returned' # returned \/ released' # released)
       /\ returned' # returned =>
             LET h == returned'[Len(returned')]
             IN  /\ ret'.op = "open" /\ ret'.val = h
                 /\ h \notin Keys /\ Keys' = Keys \cup {h}
                 /\ OthersKept(h)
       /\ released' # released =>
             /\ ret'.op = "release"
             /\ released' = released \cup {ret'.arg}
             /\ ret'.arg \in Keys /\ Keys' = Keys \ {ret'.arg}
             /\ max_buffer_id' = max_buffer_id
             /\ OthersKept(ret'.arg)
       /\ ret'.op \in {"read", "getattr", "readdir", "statfs"} =>
             (Keys' = Keys /\ max_buffer_id' = max_buffer_id)
       /\ max_buffer_id' # max_buffer_id => ret'.op = "open"]_vars

\* C15 happens: with two handles open one was released, and then getattr,
\* readdir or statfs was called
C15_Witness ==
    /\ released # {} /\ Keys # {}
    /\ ret.op \in {"getattr", "readdir", "statfs"}

\* C5: a released handle is not in the table again, and a read on it
\* raises KeyError and returns no data.
C5_ReadAfterReleaseFails ==
    /\ released \cap DOMAIN open_buffers = {}
    /\ (ret.op = "read" /\ ret.arg \in released)
          => (ret.exc = "KeyError" /\ ret.val = <<>>)

\* C5 happens: a read was made on a released handle
C5_Witness == ret.op = "read" /\ ret.arg \in released

\* C6: every handle open returns is greater than all handles returned
\* before it, whether or not those were released and whether or not opens
\* failed in between.
C6_HandlesStrictlyIncrease ==
    /\ \A i, j \in 1..Len(returned) : i < j => returned[i] < returned[j]
    /\ (ret.op = "open" /\ ret.exc = "") => ret.val = returned[Len(returned)]

\* C6 happens: a handle was returned after an earlier one was released
C6_Witness ==
    /\ Len(returned) >= 2
    /\ returned[1] \in released
    /\ ret.op = "open" /\ ret.exc = ""

-----------------------------------------------------------------------------
(* Properties of sessions whose serializer dies (SpecFault) *)

\* C11: a read on a handle whose serializer died before it wrote its whole
\* stream raises an error; it is not answered as a successful read of the
\* bytes left or of no bytes, as at a normal end of file.
C11_ReadAfterDeathFails ==
    [][\A fh \in DOMAIN open_buffers :
          (open_buffers[fh].send_proc.died /\ ReadOn(fh)) => ret'.exc # ""]_vars

-----------------------------------------------------------------------------
(* Properties of the serializer processes (Spec) *)

\* the processes started and not sent a terminate signal
Alive == {p \in DOMAIN procs : ~procs[p].terminated}

\* the handles whose session holds process p
OwnersOf(p) == {h \in Keys : open_buffers[h].send_proc.pid = p}

\* C19: after any opens, failed ones among them, reads and releases, every
\* process started and not sent a terminate signal is held by exactly one
\* session of the table, every session of the table holds one such process
\* of its own, and a release has both terminated the process of its handle
\* and removed the handle.
C19_NoOrphanSerializer ==
    /\ \A p \in Alive : Cardinality(OwnersOf(p)) = 1
    /\ \A h \in Keys :
          /\ open_buffers[h].send_proc.pid \in Alive
          /\ ~open_buffers[h].send_proc.terminated
    /\ (ret.op = "release" /\ ret.exc = "") =>
          /\ ret.arg \notin Keys
          /\ ret.val.send_proc.terminated
          /\ ret.val.send_proc.pid \in DOMAIN procs \ Alive

\* C19 happens: a release terminated one process while another session
\* stays open with its process running
C19_Witness ==
    /\ ret.op = "release" /\ ret.exc = ""
    /\ Alive # {} /\ DOMAIN procs \ Alive # {}
    /\ Keys # {}

\* the step leaves the outcome of the last call as it was: it makes no call,
\* or makes the last call again with the same outcome
SameCall == ret'.op = ret.op /\ ret'.exc = ret.exc /\ ret'.arg = ret.arg

\* C20: an open whose listing query or spawn fails raises, adds no entry
\* to the table and leaves no new process; a read or a release on a handle
\* that is not in the table raises KeyError, and adds, removes and closes
\* no session.
C20_FailedCallsKeepTable ==
    [][/\ (ret'.op = "open" /\ max_buffer_id' # max_buffer_id
             /\ (~ret'.env.list_ok \/ ~ret'.env.spawn_ok))
          => ret'.exc # ""
       /\ (ret'.op = "open" /\ ret'.exc # "")
          => (open_buffers' = open_buffers /\ procs' = procs)
       /\ (ret'.op \in {"read", "release"} /\ ret'.arg \notin Keys)
          => /\ open_buffers' = open_buffers /\ procs' = procs
             /\ released' = released
             /\ SameCall \/ ret'.exc = "KeyError"]_vars

\* C20 happens: Popen failed in an open made while a session was open
C20_Witness ==
    /\ ret.op = "open" /\ ret.env.list_ok /\ ~ret.env.spawn_ok
    /\ ret.exc = "OSError"
    /\ Keys # {}

====
